---- MODULE Spec2Model ----
(***************************************************************************)
(* Coderr marketplace backend (Django REST Framework): the persisted rows  *)
(* (Profile, Offer, OfferDetail, Order, Review) and the request handlers   *)
(* that read and write them.  One action is one HTTP request, handled from *)
(* its first check to its response; `resp` records the request that was    *)
(* handled last and the status it was answered with.                       *)
(***************************************************************************)
EXTENDS Integers, Sequences, FiniteSets, TLC

VARIABLES
    users,      \* User rows: id -> [username, email, first_name, last_name]
    tokens,     \* Token rows: the ids of the users that hold a token
    profiles,   \* Profile rows: user id -> [type, location, tel, ...]
    offers,     \* Offer rows: id -> [user, title, description]
    details,    \* OfferDetail rows: id -> [offer, title, ..., offer_type]
    orders,     \* Order rows: id -> [customer_user, business_user, ..., status]
    reviews,    \* Review rows: id -> [business_user, reviewer, rating, description]
    next_id,    \* the auto-increment primary keys: [user, offer, detail, order, review]
    resp,       \* the last request and its response
    inflight    \* the profile requests that have started and not yet answered

vars ==
    <<users, tokens, profiles, offers, details, orders, reviews, next_id, resp, inflight>>

-----------------------------------------------------------------------------
(* Bounds of the model *)

\* Offers ever created (primary keys 1..MaxOffers).
MaxOffers == 1
\* Orders ever created.
MaxOrders == 1
\* Reviews ever created.
MaxReviews == 2
MaxUsers == 2
MaxInflight == 2

-----------------------------------------------------------------------------
(* Users: rows of the auth subsystem.  Four exist before the first request *)
(* (manage.py createsuperuser, User.objects.create_user) and have no       *)
(* Profile row until one is created for them; registration adds more.      *)

UserIds == {1, 2, 3, 4}

\* request.user of a request without credentials (AnonymousUser).
Anon == 0

Callers == UserIds \cup {Anon}

\* User.objects.create_user(username, email): the row of a new user.
\* User names and e-mail addresses are written letter by letter.
create_user(un, em) ==
    [username |-> un, email |-> em, first_name |-> "", last_name |-> ""]

\* The users that exist before the first request.
InitialUsers ==
    (1 :> create_user(<<"B", "i", "z", "_", "A", "n", "n", "a">>,
                      <<"a", "n", "n", "a", "@", "x", ".", "d", "e">>))
    @@ (2 :> create_user(<<"b", "o", "b">>,
                         <<"b", "o", "b", ".", "C", "u", "s", "t", "o", "m", "e", "r",
                           "@", "x", ".", "d", "e">>))
    @@ (3 :> create_user(<<"a", "d", "m", "i", "n">>,
                         <<"a", "d", "m", "i", "n", "@", "x", ".", "d", "e">>))
    @@ (4 :> create_user(<<"d", "a", "v", "e">>,
                         <<"d", "a", "v", "e", "@", "x", ".", "d", "e">>))

\* user.username and user.email as stored now (AnonymousUser.username is "").
username(u) == IF u \in DOMAIN users THEN users[u].username ELSE <<>>

email(u) == IF u \in DOMAIN users THEN users[u].email ELSE <<>>

is_staff(u) == u = 3

is_authenticated(u) == u # Anon

\* str.lower() on the letters the user names are written with.
lower_char(c) ==
    CASE c = "A" -> "a"
      [] c = "B" -> "b"
      [] c = "C" -> "c"
      [] OTHER -> c

lower(s) == [i \in 1..Len(s) |-> lower_char(s[i])]

\* Python's `sub in s` on strings.
contains(sub, s) ==
    \E i \in 1..(Len(s) - Len(sub) + 1) : SubSeq(s, i, i + Len(sub) - 1) = sub

startswith(s, prefix) ==
    Len(prefix) <= Len(s) /\ SubSeq(s, 1, Len(prefix)) = prefix

kw_customer == <<"c", "u", "s", "t", "o", "m", "e", "r">>
kw_business == <<"b", "u", "s", "i", "n", "e", "s", "s">>
kw_biz == <<"b", "i", "z">>

TYPE_CUSTOMER == "customer"
TYPE_BUSINESS == "business"
None == "None"

\* Python's `a or b` on values that are None or a non-empty string.
Or(a, b) == IF a # None THEN a ELSE b

_guess_profile_type(u) ==
    LET un == lower(username(u))
        em == lower(email(u))
    IN  IF contains(kw_customer, un) \/ contains(kw_customer, em)
        THEN TYPE_CUSTOMER
        ELSE IF \/ contains(kw_business, un)
                \/ contains(kw_business, em)
                \/ startswith(un, kw_biz)
                \/ contains(kw_biz, un)
             THEN TYPE_BUSINESS
             ELSE None

\* Profile.objects.create(user=..., type=...): the other columns take the
\* model's defaults.
Profile_create(type) ==
    [type |-> type, location |-> "", tel |-> "", description |-> "",
     working_hours |-> "", file |-> None]

\* Faulty variant: the caller's default type wins over the guessed one.
_get_or_create_profile_default_first(ps, u, default_type) ==
    IF u \in DOMAIN ps
    THEN ps
    ELSE ps @@ (u :> Profile_create(Or(Or(default_type, _guess_profile_type(u)), TYPE_CUSTOMER)))

\* The Profile rows after _get_or_create_profile(user, default_type): the
\* existing row is kept, a missing one is created with the guessed type, the
\* caller's default, or customer.
_get_or_create_profile(ps, u, default_type) ==
    IF u \in DOMAIN ps
    THEN ps
    ELSE ps @@ (u :> Profile_create(Or(Or(_guess_profile_type(u), default_type), TYPE_CUSTOMER)))

_infer_profile_type(u) ==
    LET un == lower(username(u))
        em == lower(email(u))
    IN  IF contains(kw_customer, un) \/ contains(kw_customer, em)
        THEN TYPE_CUSTOMER
        ELSE IF \/ contains(kw_business, un)
                \/ contains(kw_business, em)
                \/ startswith(un, kw_biz)
                \/ contains(kw_biz, un)
             THEN TYPE_BUSINESS
             ELSE TYPE_CUSTOMER

\* permissions._get_profile_type: the profile's type, or the inferred one;
\* no row is created.
_get_profile_type(ps, u) ==
    IF u \in DOMAIN ps THEN ps[u].type ELSE _infer_profile_type(u)

IsCustomerUser(ps, u) ==
    is_authenticated(u) /\ _get_profile_type(ps, u) = TYPE_CUSTOMER

\* Faulty variant: the staff flag is not looked at.
IsStaffUser_any_authenticated(u) == is_authenticated(u)

IsStaffUser(u) == is_authenticated(u) /\ is_staff(u)

IsOfferOwner(u, offer) == offer.user = u

\* Faulty variant: either party of the order passes.
IsOrderBusinessOwner_either_party(u, order) ==
    order.business_user = u \/ order.customer_user = u

IsOrderBusinessOwner(u, order) == order.business_user = u

IsReviewOwner(u, review) == review.reviewer = u

\* Faulty variant: staff passes as well.
IsProfileOwner_or_staff(u, profile_user) == profile_user = u \/ is_staff(u)

\* IsProfileOwner: obj.user_id == request.user.id.
IsProfileOwner(u, profile_user) == profile_user = u

-----------------------------------------------------------------------------
(* Profiles *)

UserFields == {"first_name", "last_name", "email"}

\* The writable Profile columns of ProfileSerializer (`type` is among its
\* fields and not among its read_only_fields).
ProfileFields == {"file", "location", "tel", "description", "working_hours", "type"}

\* EmailField (EmailValidator): one "@" after a local part, and a domain
\* with a dot between two labels.
EmailField_is_valid(e) ==
    \E i \in 2..(Len(e) - 3) :
        /\ e[i] = "@"
        /\ \A j \in 1..Len(e) : e[j] = "@" => j = i
        /\ \E k \in (i + 2)..(Len(e) - 1) : e[k] = "."
        /\ e[i + 1] # "." /\ e[Len(e)] # "."

\* ProfileSerializer(partial=True).is_valid: the fields the payload carries.
ProfileSerializer_is_valid(body) ==
    /\ "email" \in DOMAIN body => EmailField_is_valid(body.email)
    /\ "type" \in DOMAIN body => body.type \in {"customer", "business"}

\* ProfileSerializer.update, first half: the user fields, then user.save().
ProfileSerializer_update_user(user, body) ==
    [f \in DOMAIN user |-> IF f \in UserFields /\ f \in DOMAIN body THEN body[f] ELSE user[f]]

\* ProfileSerializer.update, second half: super().update on the Profile row.
ProfileSerializer_update_profile(profile, body) ==
    [f \in DOMAIN profile |->
       IF f \in ProfileFields /\ f \in DOMAIN body THEN body[f] ELSE profile[f]]

-----------------------------------------------------------------------------
(* Offers *)

\* A table without rows, a body without keys.
Empty == <<>>

OFFER_TYPE_CHOICES == {"basic", "standard", "premium"}

DetailFields ==
    {"title", "revisions", "delivery_time_in_days", "price", "features", "offer_type"}

\* A detail payload of an offer creation; prices are in cents
\* (DecimalField, 2 decimal places).
Detail(t) ==
    [title |-> "A", revisions |-> 1, delivery_time_in_days |-> 3, price |-> 1000,
     features |-> <<"logo">>, offer_type |-> t]

\* A sparse detail patch of an offer PATCH.
Patch(t) == [offer_type |-> t, revisions |-> 2, price |-> 2500]

\* A function without the key k.
Without(f, k) == [x \in DOMAIN f \ {k} |-> f[x]]

\* The rows of `ds` that belong to offer `o` (offer.details).
offer_details(ds, o) == {d \in DOMAIN ds : ds[d].offer = o}

\* OfferDetailSerializer field validation of one detail payload; under
\* partial=True a missing field is skipped.
OfferDetailSerializer_is_valid(d, partial) ==
    /\ DOMAIN d \subseteq DetailFields
    /\ partial \/ (DetailFields \ {"features"}) \subseteq DOMAIN d
    /\ "offer_type" \in DOMAIN d => d.offer_type \in OFFER_TYPE_CHOICES
    /\ "delivery_time_in_days" \in DOMAIN d => d.delivery_time_in_days >= 0
    /\ "price" \in DOMAIN d => d.price >= 0

\* Faulty variant: the count check accepts any list of at most 3 details.
validate_details_at_most(value) == Len(value) <= 3

validate_details(value) == Len(value) = 3

OfferCreateSerializer_is_valid(body) ==
    /\ "title" \in DOMAIN body
    /\ "details" \in DOMAIN body
    /\ \A i \in 1..Len(body.details) : OfferDetailSerializer_is_valid(body.details[i], FALSE)
    /\ validate_details(body.details)

\* OfferCreateSerializer.create: the Offer row and one OfferDetail row per
\* payload entry, in payload order (one transaction).
OfferCreateSerializer_create_offers(os, nid, u, body) ==
    os @@ (nid.offer :> [user |-> u, title |-> body.title,
                         description |-> IF "description" \in DOMAIN body
                                         THEN body.description ELSE ""])

OfferCreateSerializer_create_details(ds, nid, body) ==
    ds @@ [i \in nid.detail..(nid.detail + Len(body.details) - 1) |->
             LET d == body.details[i - nid.detail + 1]
             IN  [offer |-> nid.offer,
                  title |-> d.title,
                  revisions |-> d.revisions,
                  delivery_time_in_days |-> d.delivery_time_in_days,
                  price |-> d.price,
                  features |-> IF "features" \in DOMAIN d THEN d.features ELSE <<>>,
                  offer_type |-> d.offer_type]]

OfferUpdateSerializer_is_valid(body) ==
    /\ DOMAIN body \subseteq {"title", "description", "details"}
    /\ "details" \in DOMAIN body =>
         \A i \in 1..Len(body.details) : OfferDetailSerializer_is_valid(body.details[i], TRUE)

\* Faulty variant: the i-th patch goes to the offer's i-th detail, whatever
\* its offer_type.
apply_detail_patches_by_position(ds, o, patches) ==
    LET ids == offer_details(ds, o)
        nth(i) == CHOOSE d \in ids : Cardinality({e \in ids : e < d}) = i - 1
    IN  IF Len(patches) > Cardinality(ids)
        THEN [status |-> 400, details |-> ds]
        ELSE [status |-> 200,
              details |-> [d \in DOMAIN ds |->
                  IF \E i \in 1..Len(patches) : nth(i) = d
                  THEN LET detail == patches[CHOOSE i \in 1..Len(patches) : nth(i) = d]
                       IN  [f \in DOMAIN ds[d] |->
                              IF f \in DOMAIN detail THEN detail[f] ELSE ds[d][f]]
                  ELSE ds[d]]]

\* The loop of OfferUpdateSerializer.update over the detail patches:
\* [status, details].  A patch without offer_type, or naming a type the offer
\* has no detail of, raises ValidationError (400); a type the offer has more
\* than one detail of makes details.get() raise MultipleObjectsReturned (500).
RECURSIVE apply_detail_patches(_, _, _)
apply_detail_patches(ds, o, patches) ==
    IF patches = <<>>
    THEN [status |-> 200, details |-> ds]
    ELSE LET detail == Head(patches)
             offer_type == IF "offer_type" \in DOMAIN detail THEN detail.offer_type ELSE None
             found == {d \in offer_details(ds, o) : ds[d].offer_type = offer_type}
         IN  IF offer_type = None \/ offer_type = ""
             THEN [status |-> 400, details |-> ds]
             ELSE IF found = {}
             THEN [status |-> 400, details |-> ds]
             ELSE IF Cardinality(found) > 1
             THEN [status |-> 500, details |-> ds]
             ELSE LET obj == CHOOSE d \in found : TRUE
                      saved == [ds EXCEPT ![obj] =
                                  [f \in DOMAIN ds[obj] |->
                                     IF f \in DOMAIN detail THEN detail[f] ELSE ds[obj][f]]]
                  IN  apply_detail_patches(saved, o, Tail(patches))

\* super().update(instance, validated_data): the offer's own fields.
OfferUpdateSerializer_update_offer(offer, body) ==
    [offer EXCEPT !.title = IF "title" \in DOMAIN body THEN body.title ELSE @,
                  !.description = IF "description" \in DOMAIN body THEN body.description ELSE @]

\* Faulty variant: no transaction, every save is committed on its own.
transaction_autocommit(before, after, status) == after

\* @transaction.atomic on update(): the rows as written when the method
\* returns, the rows as they were when it raises.
transaction_atomic(before, after, status) == IF status = 200 THEN after ELSE before

\* Offer.delete(): the row and, by on_delete=CASCADE, its details.
Offer_delete_offers(os, pk) == Without(os, pk)

\* Faulty variant: the details do not cascade with their offer.
Offer_delete_details_no_cascade(ds, pk) == ds

Offer_delete_details(ds, pk) == [d \in DOMAIN ds \ offer_details(ds, pk) |-> ds[d]]

-----------------------------------------------------------------------------
(* Orders *)

STATUS_IN_PROGRESS == "in_progress"
STATUS_COMPLETED == "completed"
STATUS_CANCELLED == "cancelled"
STATUS_CHOICES == {STATUS_IN_PROGRESS, STATUS_COMPLETED, STATUS_CANCELLED}

SnapshotFields ==
    {"title", "revisions", "delivery_time_in_days", "price", "features", "offer_type"}

\* JSON values of a request body: an integer, or a string that is none.
JsonInt(k) == [int |-> k]
JsonStr(x) == [str |-> x]
is_integer(v) == "int" \in DOMAIN v

\* Faulty variant: the lookup's ValueError is not caught and surfaces as 500.
_get_offer_detail_or_response_uncaught(ds, body) ==
    IF "offer_detail_id" \notin DOMAIN body
    THEN [status |-> 400, detail |-> 0]
    ELSE IF ~is_integer(body.offer_detail_id)
    THEN [status |-> 500, detail |-> 0]
    ELSE IF body.offer_detail_id.int \notin DOMAIN ds
    THEN [status |-> 404, detail |-> 0]
    ELSE [status |-> 200, detail |-> body.offer_detail_id.int]

\* _get_offer_detail_or_response: [status, detail]; 400 without the key or
\* with a value that is no integer, 404 when no OfferDetail has the id.
_get_offer_detail_or_response(ds, body) ==
    IF "offer_detail_id" \notin DOMAIN body
    THEN [status |-> 400, detail |-> 0]
    ELSE IF ~is_integer(body.offer_detail_id)
    THEN [status |-> 400, detail |-> 0]
    ELSE IF body.offer_detail_id.int \notin DOMAIN ds
    THEN [status |-> 404, detail |-> 0]
    ELSE [status |-> 200, detail |-> body.offer_detail_id.int]

\* Faulty variant: the buyer is stored as the business user too.
_create_order_from_detail_buyer_twice(customer_user, os, offer_detail) ==
    [customer_user |-> customer_user,
     business_user |-> customer_user,
     title |-> offer_detail.title,
     revisions |-> offer_detail.revisions,
     delivery_time_in_days |-> offer_detail.delivery_time_in_days,
     price |-> offer_detail.price,
     features |-> offer_detail.features,
     offer_type |-> offer_detail.offer_type,
     status |-> STATUS_IN_PROGRESS]

\* _create_order_from_detail: the Order row copied from the detail; status
\* takes the model's default.
_create_order_from_detail(customer_user, os, offer_detail) ==
    [customer_user |-> customer_user,
     business_user |-> os[offer_detail.offer].user,
     title |-> offer_detail.title,
     revisions |-> offer_detail.revisions,
     delivery_time_in_days |-> offer_detail.delivery_time_in_days,
     price |-> offer_detail.price,
     features |-> offer_detail.features,
     offer_type |-> offer_detail.offer_type,
     status |-> STATUS_IN_PROGRESS]

\* OrderStatusUpdateSerializer (fields = ["status"], partial=True).
\* Faulty variant: the serializer lists every model field.
OrderStatusUpdateSerializer_fields_all == {"status"} \cup SnapshotFields

OrderStatusUpdateSerializer_fields == {"status"}

OrderStatusUpdateSerializer_is_valid(body) ==
    "status" \in DOMAIN body => body.status \in STATUS_CHOICES

\* Faulty variant: a completed or cancelled order keeps its status.
OrderStatusUpdateSerializer_update_until_terminal(order, body) ==
    [f \in DOMAIN order |->
       IF /\ f \in OrderStatusUpdateSerializer_fields
          /\ f \in DOMAIN body
          /\ order.status = STATUS_IN_PROGRESS
       THEN body[f] ELSE order[f]]

\* ModelSerializer.update: every listed field the body carries is set.
OrderStatusUpdateSerializer_update(order, body) ==
    [f \in DOMAIN order |->
       IF f \in OrderStatusUpdateSerializer_fields /\ f \in DOMAIN body THEN body[f] ELSE order[f]]

\* Faulty variant: only the orders the user placed.
_orders_for_user_as_customer(os, u) == {o \in DOMAIN os : os[o].customer_user = u}

\* _orders_for_user: Order.objects.filter(Q(customer_user=user) | Q(business_user=user)),
\* as the set of the primary keys of the rows.
_orders_for_user(os, u) ==
    {o \in DOMAIN os : os[o].customer_user = u} \cup {o \in DOMAIN os : os[o].business_user = u}

\* Order.objects.filter(business_user_id=..., status=...).count()
count_orders(os, business_user_id, status) ==
    Cardinality({o \in DOMAIN os :
                   os[o].business_user = business_user_id /\ os[o].status = status})

\* The status each of the two count endpoints filters on.
OrderCountView_status == STATUS_IN_PROGRESS

\* Faulty variant: the second endpoint counts the first one's status.
CompletedOrderCountView_status_copied == STATUS_IN_PROGRESS

CompletedOrderCountView_status == STATUS_COMPLETED

-----------------------------------------------------------------------------
(* Reviews *)

\* Faulty variant: the lower bound is off by one.
validate_rating_from_zero(value) == ~(value < 0 \/ value > 5)

\* PositiveIntegerField, then validate_rating.
validate_rating(value) == ~(value < 1 \/ value > 5)

ReviewCreateSerializer_is_valid(body) ==
    /\ "business_user" \in DOMAIN body /\ body.business_user \in DOMAIN users
    /\ "rating" \in DOMAIN body /\ body.rating >= 0 /\ validate_rating(body.rating)

\* Faulty variant: the reviewer is taken from the payload's business_user.
ReviewCreateSerializer_create_reviewer_from_payload(u, body) ==
    [business_user |-> body.business_user,
     reviewer |-> body.business_user,
     rating |-> body.rating,
     description |-> IF "description" \in DOMAIN body THEN body.description ELSE ""]

ReviewCreateSerializer_create(u, body) ==
    [business_user |-> body.business_user,
     reviewer |-> u,
     rating |-> body.rating,
     description |-> IF "description" \in DOMAIN body THEN body.description ELSE ""]

\* Faulty variant: the lookup filters on the business user's id against the reviewer.
review_exists_wrong_filter(rs, business_user_id, reviewer) ==
    \E r \in DOMAIN rs : rs[r].business_user = reviewer /\ rs[r].reviewer = business_user_id

\* Review.objects.filter(business_user_id=..., reviewer=...).exists()
review_exists(rs, business_user_id, reviewer) ==
    \E r \in DOMAIN rs : rs[r].business_user = business_user_id /\ rs[r].reviewer = reviewer

\* Meta.unique_together = ("business_user", "reviewer"): whether the store
\* accepts the insert of `row`.
unique_together(rs, row) ==
    ~\E r \in DOMAIN rs :
        rs[r].business_user = row.business_user /\ rs[r].reviewer = row.reviewer

ReviewUpdateSerializer_is_valid(body) ==
    "rating" \in DOMAIN body => (body.rating >= 0 /\ validate_rating(body.rating))

ReviewUpdateSerializer_update(review, body) ==
    [review EXCEPT !.rating = IF "rating" \in DOMAIN body THEN body.rating ELSE @,
                   !.description = IF "description" \in DOMAIN body THEN body.description ELSE @]

-----------------------------------------------------------------------------
(* Request bodies *)

OfferCreateBodies ==
    { [title |-> "T1", description |-> "D1", details |-> ds] :
        ds \in { <<Detail("basic"), Detail("standard"), Detail("premium")>>,
                 <<Detail("premium"), Detail("basic"), Detail("standard")>>,
                 <<Detail("basic"), Detail("basic"), Detail("standard")>>,
                 <<Detail("basic"), Detail("standard")>>,
                 <<>>,
                 <<Detail("basic"), Detail("standard"), Detail("premium"), Detail("basic")>> } }

OfferPatchBodies ==
    { [title |-> "T2", details |-> <<Patch("basic")>>],
      [description |-> "D2", details |-> <<Patch("standard"), Patch("premium")>>],
      [title |-> "T3", details |-> <<Patch("premium"), Without(Patch("standard"), "offer_type")>>] }

\* The one well-formed creation body the order requests build on.
OfferCreateBody ==
    [title |-> "T1", description |-> "D1",
     details |-> <<Detail("basic"), Detail("standard"), Detail("premium")>>]

\* The detail patch the order requests follow.
OfferPatchBody ==
    [description |-> "D2", details |-> <<Patch("standard"), Patch("premium")>>]

OrderCreateBodies ==
    { [offer_detail_id |-> JsonInt(2)], [offer_detail_id |-> JsonInt(3 * MaxOffers + 1)] }

\* The last body also names a field the serializer does not list.
OrderPatchBodies ==
    { [status |-> s] : s \in {STATUS_IN_PROGRESS, STATUS_CANCELLED, "shipped"} }
    \cup { [status |-> STATUS_COMPLETED, price |-> 1] }

ReviewCreateBodies ==
    { [business_user |-> 1, rating |-> r, description |-> "R1"] : r \in {0, 1, 5, 6} }
    \cup { [business_user |-> 9, rating |-> 5, description |-> "R1"] }

ReviewPatchBodies ==
    { [rating |-> 0], [rating |-> 1, description |-> "R2"], [rating |-> 5], [rating |-> 6] }

-----------------------------------------------------------------------------
(* The response record *)

Response(op, caller, pk, body, status) ==
    [op |-> op, caller |-> caller, pk |-> pk, body |-> body, status |-> status]

NoBody == [none |-> TRUE]

\* A response that carries a payload the claims read.
ResponseData(op, caller, pk, body, status, data) ==
    [op |-> op, caller |-> caller, pk |-> pk, body |-> body, status |-> status,
     data |-> data]

-----------------------------------------------------------------------------
(* Handlers *)

\* GET /api/profile/{pk}/ (ProfileDetailView.get).
ProfileDetailView_get(c, pk) ==
    /\ IF ~is_authenticated(c)
       THEN /\ resp' = Response("profile_get", c, pk, NoBody, 401)
            /\ UNCHANGED profiles
       ELSE IF pk \notin DOMAIN users
       THEN /\ resp' = Response("profile_get", c, pk, NoBody, 404)
            /\ UNCHANGED profiles
       ELSE /\ profiles' = _get_or_create_profile(profiles, pk, None)
            /\ resp' = Response("profile_get", c, pk, NoBody, 200)
    /\ UNCHANGED <<users, tokens, offers, details, orders, reviews, next_id, inflight>>

\* RegistrationSerializer.is_valid: five required fields, none blank, an
\* e-mail address, a type among Profile.TYPE_CHOICES, equal passwords.
RegistrationSerializer_is_valid(body) ==
    /\ {"username", "email", "password", "repeated_password", "type"} \subseteq DOMAIN body
    /\ body.username # <<>> /\ body.password # "" /\ body.repeated_password # ""
    /\ EmailField_is_valid(body.email)
    /\ body.type \in {TYPE_CUSTOMER, TYPE_BUSINESS}
    /\ body.password = body.repeated_password

\* The unique constraint on auth_user.username (create_user raises
\* IntegrityError on a name that is taken).
username_taken(us, un) == \E u \in DOMAIN us : us[u].username = un

\* Faulty variant: the profile is resolved lazily instead of created with the
\* submitted type.
_create_profile_lazily(ps, u, type) == _get_or_create_profile(ps, u, None)

\* _create_user_with_profile: Profile.objects.create(user=user, type=profile_type).
_create_user_with_profile(ps, u, type) == ps @@ (u :> Profile_create(type))

\* _build_auth_response: Token.objects.get_or_create(user=user).
_build_auth_response(ts, u) == ts \cup {u}

\* POST /api/registration/ (RegistrationView.post); create() runs in one
\* transaction.
RegistrationView_post(body) ==
    /\ UNCHANGED <<offers, details, orders, reviews, inflight>>
    /\ IF ~RegistrationSerializer_is_valid(body)
       THEN /\ resp' = Response("registration", Anon, 0, body, 400)
            /\ UNCHANGED <<users, tokens, profiles, next_id>>
       ELSE IF username_taken(users, body.username)
       THEN /\ resp' = Response("registration", Anon, 0, body, 500)  \* IntegrityError
            /\ UNCHANGED <<users, tokens, profiles, next_id>>
       ELSE /\ next_id.user <= 4 + MaxUsers
            /\ users' = users @@ (next_id.user :> create_user(body.username, body.email))
            /\ profiles' = _create_user_with_profile(profiles, next_id.user, body.type)
            /\ tokens' = _build_auth_response(tokens, next_id.user)
            /\ next_id' = [next_id EXCEPT !.user = @ + 1]
            /\ resp' = ResponseData("registration", Anon, next_id.user, body, 201,
                                    next_id.user)

\* PATCH /api/profile/{pk}/ (ProfileDetailView.patch): the profile is
\* resolved before the owner check.
ProfileDetailView_patch(c, pk, body) ==
    /\ UNCHANGED <<tokens, offers, details, orders, reviews, next_id, inflight>>
    /\ IF ~is_authenticated(c)
       THEN /\ resp' = Response("profile_patch", c, pk, body, 401)
            /\ UNCHANGED <<users, profiles>>
       ELSE IF pk \notin DOMAIN users
       THEN /\ resp' = Response("profile_patch", c, pk, body, 404)
            /\ UNCHANGED <<users, profiles>>
       ELSE LET ps == _get_or_create_profile(profiles, pk, None)
            IN  IF ~IsProfileOwner(c, pk)
                THEN /\ resp' = Response("profile_patch", c, pk, body, 403)
                     /\ profiles' = ps
                     /\ UNCHANGED users
                ELSE IF ~ProfileSerializer_is_valid(body)
                THEN /\ resp' = Response("profile_patch", c, pk, body, 400)
                     /\ profiles' = ps
                     /\ UNCHANGED users
                ELSE /\ users' = [users EXCEPT ![pk] = ProfileSerializer_update_user(@, body)]
                     /\ profiles' = [ps EXCEPT ![pk] = ProfileSerializer_update_profile(@, body)]
                     /\ resp' = Response("profile_patch", c, pk, body, 200)

\* Faulty variant: the row of a user that has one is written anew.
Profile_objects_create_or_replace(ps, u, type) ==
    [x \in DOMAIN ps \cup {u} |-> IF x = u THEN Profile_create(type) ELSE ps[x]]

\* Profile.objects.create(user=user, type=profile_type) under the unique
\* constraint of the OneToOneField: a user that has a row by now keeps it
\* (IntegrityError).
Profile_objects_create(ps, u, type) ==
    IF u \in DOMAIN ps THEN ps ELSE ps @@ (u :> Profile_create(type))

\* ProfileDetailView.get as far as _get_or_create_profile finding no row
\* (user.profile raises Profile.DoesNotExist); other requests may run before
\* the request goes on.
ProfileDetailView_get_lookup(c, pk) ==
    /\ is_authenticated(c) /\ pk \in DOMAIN users /\ pk \notin DOMAIN profiles
    /\ Cardinality(inflight) < MaxInflight
    /\ inflight' = inflight \cup {[op |-> "profile_get", caller |-> c, pk |-> pk]}
    /\ UNCHANGED <<users, tokens, profiles, offers, details, orders, reviews, next_id, resp>>

\* ProfileDetailView.get from Profile.objects.create on: 200, or the
\* IntegrityError (500) when another request has created the row meanwhile.
ProfileDetailView_get_create(r) ==
    /\ r \in inflight /\ r.op = "profile_get"
    /\ inflight' = inflight \ {r}
    /\ profiles' = Profile_objects_create(profiles, r.pk,
                                          Or(_guess_profile_type(r.pk), TYPE_CUSTOMER))
    /\ resp' = Response("profile_get", r.caller, r.pk, NoBody,
                        IF r.pk \in DOMAIN profiles THEN 500 ELSE 200)
    /\ UNCHANGED <<users, tokens, offers, details, orders, reviews, next_id>>

\* ProfileDetailView.patch by the owner with a valid payload, as far as
\* ProfileSerializer.update's instance.user.save(): the User row is committed
\* (no transaction spans the two saves), the loaded Profile instance is kept.
ProfileDetailView_patch_user_save(c, pk, body) ==
    /\ is_authenticated(c) /\ pk \in DOMAIN users
    /\ IsProfileOwner(c, pk) /\ ProfileSerializer_is_valid(body)
    /\ Cardinality(inflight) < MaxInflight
    /\ LET ps == _get_or_create_profile(profiles, pk, None)
       IN  /\ profiles' = ps
           /\ inflight' = inflight \cup {[op |-> "profile_patch", caller |-> c, pk |-> pk,
                                          body |-> body, instance |-> ps[pk]]}
    /\ users' = [users EXCEPT ![pk] = ProfileSerializer_update_user(@, body)]
    /\ UNCHANGED <<tokens, offers, details, orders, reviews, next_id, resp>>

\* ProfileDetailView.patch from super().update(instance, validated_data) on:
\* instance.save() writes the Profile row (200) or raises (a storage or
\* database error, 500) and the User row written before stays.
ProfileDetailView_patch_profile_save(r, saved) ==
    /\ r \in inflight /\ r.op = "profile_patch"
    /\ inflight' = inflight \ {r}
    /\ IF saved
       THEN /\ profiles' = [profiles EXCEPT
                               ![r.pk] = ProfileSerializer_update_profile(r.instance, r.body)]
            /\ resp' = Response("profile_patch", r.caller, r.pk, r.body, 200)
       ELSE /\ UNCHANGED profiles
            /\ resp' = Response("profile_patch", r.caller, r.pk, r.body, 500)
    /\ UNCHANGED <<users, tokens, offers, details, orders, reviews, next_id>>

\* POST /api/offers/ (OffersListCreateView.post).
OffersListCreateView_post(c, body) ==
    IF ~is_authenticated(c)
    THEN /\ resp' = Response("offer_post", c, 0, body, 401)
         /\ UNCHANGED <<users, tokens, profiles, offers, details, orders, reviews, next_id,
                        inflight>>
    ELSE LET ps == _get_or_create_profile(profiles, c, TYPE_BUSINESS)
         IN  /\ profiles' = ps
             /\ UNCHANGED <<users, tokens, inflight>>
             /\ IF ps[c].type # TYPE_BUSINESS
                THEN /\ resp' = Response("offer_post", c, 0, body, 403)
                     /\ UNCHANGED <<offers, details, orders, reviews, next_id>>
                ELSE IF ~OfferCreateSerializer_is_valid(body)
                THEN /\ resp' = Response("offer_post", c, 0, body, 400)
                     /\ UNCHANGED <<offers, details, orders, reviews, next_id>>
                ELSE /\ next_id.offer <= MaxOffers
                     /\ offers' = OfferCreateSerializer_create_offers(offers, next_id, c, body)
                     /\ details' = OfferCreateSerializer_create_details(details, next_id, body)
                     /\ next_id' = [next_id EXCEPT !.offer = @ + 1,
                                                   !.detail = @ + Len(body.details)]
                     /\ resp' = Response("offer_post", c, next_id.offer, body, 201)
                     /\ UNCHANGED <<orders, reviews>>

\* PATCH /api/offers/{pk}/ (OfferDetailUpdateDeleteView.patch).
OfferDetailUpdateDeleteView_patch(c, pk, body) ==
    /\ UNCHANGED <<users, tokens, profiles, orders, reviews, next_id, inflight>>
    /\ IF ~is_authenticated(c)
       THEN /\ resp' = Response("offer_patch", c, pk, body, 401)
            /\ UNCHANGED <<offers, details>>
       ELSE IF pk \notin DOMAIN offers
       THEN /\ resp' = Response("offer_patch", c, pk, body, 404)
            /\ UNCHANGED <<offers, details>>
       ELSE IF ~IsOfferOwner(c, offers[pk])
       THEN /\ resp' = Response("offer_patch", c, pk, body, 403)
            /\ UNCHANGED <<offers, details>>
       ELSE IF ~OfferUpdateSerializer_is_valid(body)
       THEN /\ resp' = Response("offer_patch", c, pk, body, 400)
            /\ UNCHANGED <<offers, details>>
       ELSE LET saved == [offers EXCEPT ![pk] = OfferUpdateSerializer_update_offer(@, body)]
                r == apply_detail_patches(
                        details, pk,
                        IF "details" \in DOMAIN body THEN body.details ELSE <<>>)
            IN  /\ resp' = Response("offer_patch", c, pk, body, r.status)
                /\ offers' = transaction_atomic(offers, saved, r.status)
                /\ details' = transaction_atomic(details, r.details, r.status)

\* DELETE /api/offers/{pk}/ (OfferDetailUpdateDeleteView.delete).
OfferDetailUpdateDeleteView_delete(c, pk) ==
    /\ UNCHANGED <<users, tokens, profiles, orders, reviews, next_id, inflight>>
    /\ IF ~is_authenticated(c)
       THEN /\ resp' = Response("offer_delete", c, pk, NoBody, 401)
            /\ UNCHANGED <<offers, details>>
       ELSE IF pk \notin DOMAIN offers
       THEN /\ resp' = Response("offer_delete", c, pk, NoBody, 404)
            /\ UNCHANGED <<offers, details>>
       ELSE IF ~IsOfferOwner(c, offers[pk])
       THEN /\ resp' = Response("offer_delete", c, pk, NoBody, 403)
            /\ UNCHANGED <<offers, details>>
       ELSE /\ offers' = Offer_delete_offers(offers, pk)
            /\ details' = Offer_delete_details(details, pk)
            /\ resp' = Response("offer_delete", c, pk, NoBody, 204)

\* GET /api/orders/ (OrdersListCreateView.get); `results` holds the primary
\* keys of the serialized orders.
OrdersListCreateView_get(c) ==
    /\ UNCHANGED <<users, tokens, profiles, offers, details, orders, reviews, next_id, inflight>>
    /\ IF ~is_authenticated(c)
       THEN resp' = Response("order_list", c, 0, NoBody, 401)
       ELSE resp' = Response("order_list", c, 0, NoBody, 200)
                        @@ [results |-> _orders_for_user(orders, c)]

\* POST /api/orders/ (OrdersListCreateView.post).
OrdersListCreateView_post(c, body) ==
    /\ UNCHANGED <<users, tokens, profiles, offers, details, reviews, inflight>>
    /\ IF ~is_authenticated(c)
       THEN /\ resp' = Response("order_post", c, 0, body, 401)
            /\ UNCHANGED <<orders, next_id>>
       ELSE IF ~IsCustomerUser(profiles, c)
       THEN /\ resp' = Response("order_post", c, 0, body, 403)
            /\ UNCHANGED <<orders, next_id>>
       ELSE LET r == _get_offer_detail_or_response(details, body)
            IN  IF r.status # 200
                THEN /\ resp' = Response("order_post", c, 0, body, r.status)
                     /\ UNCHANGED <<orders, next_id>>
                ELSE /\ next_id.order <= MaxOrders
                     /\ orders' = orders @@
                           (next_id.order :> _create_order_from_detail(c, offers, details[r.detail]))
                     /\ next_id' = [next_id EXCEPT !.order = @ + 1]
                     /\ resp' = Response("order_post", c, next_id.order, body, 201)

\* PATCH /api/orders/{pk}/ (OrdersUpdateDeleteView.patch).
OrdersUpdateDeleteView_patch(c, pk, body) ==
    /\ UNCHANGED <<users, tokens, profiles, offers, details, reviews, next_id, inflight>>
    /\ IF ~is_authenticated(c)
       THEN /\ resp' = Response("order_patch", c, pk, body, 401)
            /\ UNCHANGED orders
       ELSE IF pk \notin DOMAIN orders
       THEN /\ resp' = Response("order_patch", c, pk, body, 404)
            /\ UNCHANGED orders
       ELSE IF ~IsOrderBusinessOwner(c, orders[pk])
       THEN /\ resp' = Response("order_patch", c, pk, body, 403)
            /\ UNCHANGED orders
       ELSE IF ~OrderStatusUpdateSerializer_is_valid(body)
       THEN /\ resp' = Response("order_patch", c, pk, body, 400)
            /\ UNCHANGED orders
       ELSE /\ orders' = [orders EXCEPT ![pk] = OrderStatusUpdateSerializer_update(@, body)]
            /\ resp' = Response("order_patch", c, pk, body, 200)

\* DELETE /api/orders/{pk}/ (OrdersUpdateDeleteView.delete).
OrdersUpdateDeleteView_delete(c, pk) ==
    /\ UNCHANGED <<users, tokens, profiles, offers, details, reviews, next_id, inflight>>
    /\ IF ~is_authenticated(c)
       THEN /\ resp' = Response("order_delete", c, pk, NoBody, 401)
            /\ UNCHANGED orders
       ELSE IF ~IsStaffUser(c)
       THEN /\ resp' = Response("order_delete", c, pk, NoBody, 403)
            /\ UNCHANGED orders
       ELSE IF pk \notin DOMAIN orders
       THEN /\ resp' = Response("order_delete", c, pk, NoBody, 404)
            /\ UNCHANGED orders
       ELSE /\ orders' = Without(orders, pk)
            /\ resp' = Response("order_delete", c, pk, NoBody, 204)

\* GET /api/order-count/{id}/ and GET /api/completed-order-count/{id}/
\* (OrderCountView.get, CompletedOrderCountView.get): op names the endpoint,
\* status the order status it counts.
order_count_get(op, status, c, business_user_id) ==
    /\ UNCHANGED <<users, tokens, offers, details, orders, reviews, next_id, inflight>>
    /\ IF ~is_authenticated(c)
       THEN /\ resp' = Response(op, c, business_user_id, NoBody, 401)
            /\ UNCHANGED profiles
       ELSE IF business_user_id \notin DOMAIN users
       THEN /\ resp' = Response(op, c, business_user_id, NoBody, 404)
            /\ UNCHANGED profiles
       ELSE LET ps == _get_or_create_profile(profiles, business_user_id, None)
            IN  /\ profiles' = ps
                /\ IF ps[business_user_id].type # TYPE_BUSINESS
                   THEN resp' = Response(op, c, business_user_id, NoBody, 404)
                   ELSE resp' = ResponseData(op, c, business_user_id, NoBody, 200,
                                             count_orders(orders, business_user_id, status))

OrderCountView_get(c, business_user_id) ==
    order_count_get("order_count", OrderCountView_status, c, business_user_id)

CompletedOrderCountView_get(c, business_user_id) ==
    order_count_get("completed_order_count", CompletedOrderCountView_status,
                    c, business_user_id)

\* POST /api/reviews/ (ReviewsListCreateView.post).
ReviewsListCreateView_post(c, body) ==
    /\ UNCHANGED <<users, tokens, profiles, offers, details, orders, inflight>>
    /\ IF ~is_authenticated(c)
       THEN /\ resp' = Response("review_post", c, 0, body, 401)
            /\ UNCHANGED <<reviews, next_id>>
       ELSE IF ~IsCustomerUser(profiles, c)
       THEN /\ resp' = Response("review_post", c, 0, body, 401)
            /\ UNCHANGED <<reviews, next_id>>
       ELSE IF ~ReviewCreateSerializer_is_valid(body)
       THEN /\ resp' = Response("review_post", c, 0, body, 400)
            /\ UNCHANGED <<reviews, next_id>>
       ELSE IF review_exists(reviews, body.business_user, c)
       THEN /\ resp' = Response("review_post", c, 0, body, 403)
            /\ UNCHANGED <<reviews, next_id>>
       ELSE IF ~unique_together(reviews, ReviewCreateSerializer_create(c, body))
       THEN /\ resp' = Response("review_post", c, 0, body, 500)  \* IntegrityError
            /\ UNCHANGED <<reviews, next_id>>
       ELSE /\ next_id.review <= MaxReviews
            /\ reviews' = reviews @@ (next_id.review :> ReviewCreateSerializer_create(c, body))
            /\ next_id' = [next_id EXCEPT !.review = @ + 1]
            /\ resp' = Response("review_post", c, next_id.review, body, 201)

\* PATCH /api/reviews/{pk}/ (ReviewsUpdateDeleteView.patch).
ReviewsUpdateDeleteView_patch(c, pk, body) ==
    /\ UNCHANGED <<users, tokens, profiles, offers, details, orders, next_id, inflight>>
    /\ IF ~is_authenticated(c)
       THEN /\ resp' = Response("review_patch", c, pk, body, 401)
            /\ UNCHANGED reviews
       ELSE IF pk \notin DOMAIN reviews
       THEN /\ resp' = Response("review_patch", c, pk, body, 404)
            /\ UNCHANGED reviews
       ELSE IF ~IsReviewOwner(c, reviews[pk])
       THEN /\ resp' = Response("review_patch", c, pk, body, 403)
            /\ UNCHANGED reviews
       ELSE IF ~ReviewUpdateSerializer_is_valid(body)
       THEN /\ resp' = Response("review_patch", c, pk, body, 400)
            /\ UNCHANGED reviews
       ELSE /\ reviews' = [reviews EXCEPT ![pk] = ReviewUpdateSerializer_update(@, body)]
            /\ resp' = Response("review_patch", c, pk, body, 200)

\* DELETE /api/reviews/{pk}/ (ReviewsUpdateDeleteView.delete).
ReviewsUpdateDeleteView_delete(c, pk) ==
    /\ UNCHANGED <<users, tokens, profiles, offers, details, orders, next_id, inflight>>
    /\ IF ~is_authenticated(c)
       THEN /\ resp' = Response("review_delete", c, pk, NoBody, 401)
            /\ UNCHANGED reviews
       ELSE IF pk \notin DOMAIN reviews
       THEN /\ resp' = Response("review_delete", c, pk, NoBody, 404)
            /\ UNCHANGED reviews
       ELSE IF ~IsReviewOwner(c, reviews[pk])
       THEN /\ resp' = Response("review_delete", c, pk, NoBody, 403)
            /\ UNCHANGED reviews
       ELSE /\ reviews' = Without(reviews, pk)
            /\ resp' = Response("review_delete", c, pk, NoBody, 204)


\* OffersListCreateView.post by a business user with a valid body, as far
\* as Offer.objects.create inside OfferCreateSerializer.create: the
\* transaction is open, the primary keys are drawn, other requests may run.
\* transaction_atomic is given 200 once create() has returned, 0 before.
OffersListCreateView_post_begin(c, body) ==
    /\ is_authenticated(c)
    /\ _get_or_create_profile(profiles, c, TYPE_BUSINESS)[c].type = TYPE_BUSINESS
    /\ OfferCreateSerializer_is_valid(body)
    /\ next_id.offer <= MaxOffers
    /\ Cardinality(inflight) < MaxInflight
    /\ profiles' = _get_or_create_profile(profiles, c, TYPE_BUSINESS)
    /\ inflight' = inflight \cup {[op |-> "offer_post", caller |-> c, pk |-> next_id.offer,
                                   body |-> body, nid |-> next_id, written |-> 0]}
    /\ offers' = transaction_atomic(
                     offers, OfferCreateSerializer_create_offers(offers, next_id, c, body), 0)
    /\ next_id' = [next_id EXCEPT !.offer = @ + 1, !.detail = @ + Len(body.details)]
    /\ UNCHANGED <<users, tokens, details, orders, reviews, resp>>

\* The next OfferDetail.objects.create of the loop in create(); after the
\* last one create() returns, the transaction commits and 201 is answered.
OffersListCreateView_post_detail(r) ==
    /\ r \in inflight /\ r.op = "offer_post"
    /\ LET n == r.written + 1
           done == n = Len(r.body.details)
           so_far == [r.body EXCEPT !.details = SubSeq(@, 1, n)]
           status == IF done THEN 200 ELSE 0
       IN  /\ inflight' = (inflight \ {r})
                              \cup (IF done THEN {} ELSE {[r EXCEPT !.written = n]})
           /\ offers' = transaction_atomic(
                            offers,
                            OfferCreateSerializer_create_offers(offers, r.nid, r.caller, r.body),
                            status)
           /\ details' = transaction_atomic(
                             details,
                             OfferCreateSerializer_create_details(details, r.nid, so_far),
                             status)
           /\ resp' = IF done THEN Response("offer_post", r.caller, r.pk, r.body, 201)
                      ELSE resp
    /\ UNCHANGED <<users, tokens, profiles, orders, reviews, next_id>>

\* OfferDetailUpdateDeleteView.patch by the owner with a valid body, as far
\* as get_object_or_404 having loaded the Offer instance.
OfferDetailUpdateDeleteView_patch_load(c, pk, body) ==
    /\ is_authenticated(c) /\ pk \in DOMAIN offers
    /\ IsOfferOwner(c, offers[pk]) /\ OfferUpdateSerializer_is_valid(body)
    /\ Cardinality(inflight) < MaxInflight
    /\ inflight' = inflight \cup {[op |-> "offer_patch", caller |-> c, pk |-> pk,
                                   body |-> body, instance |-> offers[pk]]}
    /\ UNCHANGED <<users, tokens, profiles, offers, details, orders, reviews, next_id, resp>>

\* The rest of that PATCH: OfferUpdateSerializer.update sets the payload's
\* fields on the loaded instance and instance.save() writes every column of
\* it; the details are read anew by instance.details.get.
OfferDetailUpdateDeleteView_patch_save(r) ==
    /\ r \in inflight /\ r.op = "offer_patch" /\ r.pk \in DOMAIN offers
    /\ inflight' = inflight \ {r}
    /\ LET saved == [offers EXCEPT
                       ![r.pk] = OfferUpdateSerializer_update_offer(r.instance, r.body)]
           d == apply_detail_patches(
                    details, r.pk,
                    IF "details" \in DOMAIN r.body THEN r.body.details ELSE <<>>)
       IN  /\ resp' = Response("offer_patch", r.caller, r.pk, r.body, d.status)
           /\ offers' = transaction_atomic(offers, saved, d.status)
           /\ details' = transaction_atomic(details, d.details, d.status)
    /\ UNCHANGED <<users, tokens, profiles, orders, reviews, next_id>>

\* ReviewsListCreateView.post by a customer with a valid body, as far as the
\* exists() lookup having found no review of the pair.
ReviewsListCreateView_post_check(c, body) ==
    /\ IsCustomerUser(profiles, c) /\ ReviewCreateSerializer_is_valid(body)
    /\ ~review_exists(reviews, body.business_user, c)
    /\ Cardinality(inflight) < MaxInflight
    /\ inflight' = inflight \cup {[op |-> "review_post", caller |-> c, body |-> body]}
    /\ UNCHANGED <<users, tokens, profiles, offers, details, orders, reviews, next_id, resp>>

\* The rest of that POST: serializer.save() inserts the row (201) or the
\* store refuses the pair (IntegrityError, uncaught: 500).
ReviewsListCreateView_post_save(r) ==
    /\ r \in inflight /\ r.op = "review_post"
    /\ inflight' = inflight \ {r}
    /\ IF ~unique_together(reviews, ReviewCreateSerializer_create(r.caller, r.body))
       THEN /\ resp' = Response("review_post", r.caller, 0, r.body, 500)
            /\ UNCHANGED <<reviews, next_id>>
       ELSE /\ next_id.review <= MaxReviews
            /\ reviews' = reviews @@ (next_id.review
                                        :> ReviewCreateSerializer_create(r.caller, r.body))
            /\ next_id' = [next_id EXCEPT !.review = @ + 1]
            /\ resp' = Response("review_post", r.caller, next_id.review, r.body, 201)
    /\ UNCHANGED <<users, tokens, profiles, offers, details, orders>>

\* Faulty variant: every profile is counted.
business_profile_count_any_type(ps) == Cardinality(DOMAIN ps)

\* Profile.objects.filter(type=Profile.TYPE_BUSINESS).count()
business_profile_count(ps) == Cardinality({u \in DOMAIN ps : ps[u].type = TYPE_BUSINESS})

\* round(Review.objects.aggregate(avg=Avg("rating"))["avg"] or 0, 1), in
\* tenths; round() takes the nearest tenth and the even one on a tie.
average_rating(rs) ==
    LET RECURSIVE total(_)
        total(S) == IF S = {} THEN 0
                    ELSE LET r == CHOOSE x \in S : TRUE IN rs[r].rating + total(S \ {r})
        n == Cardinality(DOMAIN rs)
        t == 10 * total(DOMAIN rs)
    IN  IF n = 0 THEN 0
        ELSE IF 2 * (t % n) < n THEN t \div n
        ELSE IF 2 * (t % n) > n THEN (t \div n) + 1
        ELSE IF (t \div n) % 2 = 0 THEN t \div n ELSE (t \div n) + 1

\* GET /api/base-info/ (BaseInfoView.get): no authentication class, any
\* caller is anonymous.
BaseInfoView_get ==
    /\ UNCHANGED <<users, tokens, profiles, offers, details, orders, reviews, next_id, inflight>>
    /\ resp' = Response("base_info", Anon, 0, NoBody, 200)
                 @@ [review_count |-> Cardinality(DOMAIN reviews),
                     average_rating |-> average_rating(reviews),
                     business_profile_count |-> business_profile_count(profiles),
                     offer_count |-> Cardinality(DOMAIN offers)]

-----------------------------------------------------------------------------
(* Specifications *)

Init ==
    /\ users = InitialUsers
    /\ tokens = {}
    /\ profiles = Empty
    /\ offers = Empty
    /\ details = Empty
    /\ orders = Empty
    /\ reviews = Empty
    /\ next_id = [user |-> 5, offer |-> 1, detail |-> 1, order |-> 1, review |-> 1]
    /\ inflight = {}
    /\ resp = Response("none", Anon, 0, NoBody, 0)

OfferPks == 1..(MaxOffers + 1)

\* The callers of the offer requests: anonymous, a business, a customer and a
\* user whose name gives no hint.
OfferCallers == {Anon, 1, 2, 4}

ProfileGet == \E c \in {2}, pk \in {4} : ProfileDetailView_get(c, pk)

OfferPost == \E c \in OfferCallers, body \in OfferCreateBodies : OffersListCreateView_post(c, body)

OfferPatch ==
    \E c \in OfferCallers, pk \in OfferPks, body \in OfferPatchBodies :
        OfferDetailUpdateDeleteView_patch(c, pk, body)

OfferDelete == \E c \in OfferCallers, pk \in OfferPks : OfferDetailUpdateDeleteView_delete(c, pk)

NextOffers == ProfileGet \/ OfferPost \/ OfferPatch \/ OfferDelete

SpecOffers == Init /\ [][NextOffers]_vars

(* Orders, with the offers they are taken from. *)

OrderPks == 1..(MaxOrders + 1)

\* User 1 posts the offer; user 4's creation request is refused for its
\* details, after its business profile was resolved.
OrderOfferPost ==
    \/ OffersListCreateView_post(1, OfferCreateBody)
    \/ OffersListCreateView_post(4, [OfferCreateBody EXCEPT !.details = <<Detail("basic")>>])

OrderOfferPatch ==
    \E pk \in DOMAIN offers :
        OfferDetailUpdateDeleteView_patch(offers[pk].user, pk, OfferPatchBody)

OrderOfferDelete ==
    \E pk \in DOMAIN offers : OfferDetailUpdateDeleteView_delete(offers[pk].user, pk)

OrderPost ==
    \E c \in {Anon, 1, 2}, body \in OrderCreateBodies : OrdersListCreateView_post(c, body)

OrderPatch ==
    \E c \in Callers, pk \in OrderPks, body \in OrderPatchBodies :
        OrdersUpdateDeleteView_patch(c, pk, body)

OrderDelete == \E c \in Callers, pk \in OrderPks : OrdersUpdateDeleteView_delete(c, pk)

NextOrders ==
    OrderOfferPost \/ OrderOfferPatch \/ OrderOfferDelete \/ OrderPost \/ OrderPatch \/ OrderDelete

SpecOrders == Init /\ [][NextOrders]_vars

(* Reviews. *)

ReviewPks == 1..(MaxReviews + 1)

ReviewCallers == {Anon, 1, 2, 4}

ReviewProfileGet == \E c \in {2}, pk \in {1, 4} : ProfileDetailView_get(c, pk)

ReviewPost ==
    \E c \in ReviewCallers, body \in ReviewCreateBodies : ReviewsListCreateView_post(c, body)

ReviewPatch ==
    \E c \in ReviewCallers, pk \in ReviewPks, body \in ReviewPatchBodies :
        ReviewsUpdateDeleteView_patch(c, pk, body)

ReviewDelete == \E c \in ReviewCallers, pk \in ReviewPks : ReviewsUpdateDeleteView_delete(c, pk)

NextReviews == ReviewProfileGet \/ ReviewPost \/ ReviewPatch \/ ReviewDelete

SpecReviews == Init /\ [][NextReviews]_vars

(* Orders as their parties see them: refused creations, the two counters. *)

\* Creation bodies that are refused: no key, a value that is no integer, an
\* id no detail has.
OrderErrorBodies ==
    { Empty,
      [offer_detail_id |-> JsonStr("not-an-integer")],
      [offer_detail_id |-> JsonInt(3 * MaxOffers + 1)] }

\* The ids the counters are asked for: the business user, a customer, a user
\* without a hint in the name, and an id no user has.
CountIds == {1, 2, 4, 9}

QueryOfferPost == OffersListCreateView_post(1, OfferCreateBody)

QueryOrderPost ==
    \E c \in {2, 4}, body \in OrderErrorBodies \cup {[offer_detail_id |-> JsonInt(2)]} :
        OrdersListCreateView_post(c, body)

QueryOrderPatch ==
    \E pk \in DOMAIN orders, s \in STATUS_CHOICES :
        OrdersUpdateDeleteView_patch(orders[pk].business_user, pk, [status |-> s])

QueryOrderDelete == \E pk \in DOMAIN orders : OrdersUpdateDeleteView_delete(3, pk)

QueryOrderCount == \E c \in {Anon, 2}, id \in CountIds : OrderCountView_get(c, id)

QueryCompletedOrderCount ==
    \E c \in {Anon, 2}, id \in CountIds : CompletedOrderCountView_get(c, id)

NextOrderQueries ==
    \/ QueryOfferPost \/ QueryOrderPost \/ QueryOrderPatch \/ QueryOrderDelete
    \/ QueryOrderCount \/ QueryCompletedOrderCount
    \/ \E c \in {Anon, 1, 2, 4} : OrdersListCreateView_get(c)

SpecOrderQueries == Init /\ [][NextOrderQueries]_vars

(* Offer updates: a well-formed offer and one with a doubled type, patched *)
(* by the owner and by somebody else.                                      *)

UpdateOfferPost ==
    \E ds \in { <<Detail("basic"), Detail("standard"), Detail("premium")>>,
                <<Detail("basic"), Detail("basic"), Detail("standard")>> } :
        OffersListCreateView_post(1, [OfferCreateBody EXCEPT !.details = ds])

UpdateOfferPatch ==
    \E c \in {1, 2}, pk \in OfferPks, body \in OfferPatchBodies \cup {[title |-> "T2"]} :
        OfferDetailUpdateDeleteView_patch(c, pk, body)

NextOfferUpdates == UpdateOfferPost \/ UpdateOfferPatch

SpecOfferUpdates == Init /\ [][NextOfferUpdates]_vars

(* Owned resources: an offer, a review and two profiles, written by their *)
(* owner, by another user and by staff.                                    *)

OwnerCallers == {1, 2, 3}

ProfilePatchBody == [first_name |-> "Anna", location |-> "Berlin"]

OwnOfferPost == OffersListCreateView_post(1, OfferCreateBody)

OwnOfferPatch ==
    \E c \in OwnerCallers, pk \in OfferPks :
        OfferDetailUpdateDeleteView_patch(c, pk, [title |-> "T2", details |-> <<Patch("basic")>>])

OwnOfferDelete ==
    \E c \in OwnerCallers, pk \in OfferPks : OfferDetailUpdateDeleteView_delete(c, pk)

OwnReviewPost ==
    ReviewsListCreateView_post(2, [business_user |-> 1, rating |-> 5, description |-> "R1"])

OwnReviewPatch ==
    \E c \in OwnerCallers, pk \in ReviewPks :
        ReviewsUpdateDeleteView_patch(c, pk, [rating |-> 1, description |-> "R2"])

OwnReviewDelete ==
    \E c \in OwnerCallers, pk \in ReviewPks : ReviewsUpdateDeleteView_delete(c, pk)

OwnProfilePatch ==
    \E c \in OwnerCallers, pk \in {1, 2} : ProfileDetailView_patch(c, pk, ProfilePatchBody)

NextOwners ==
    \/ OwnOfferPost \/ OwnOfferPatch \/ OwnOfferDelete
    \/ OwnReviewPost \/ OwnReviewPatch \/ OwnReviewDelete
    \/ OwnProfilePatch

SpecOwners == Init /\ [][NextOwners]_vars

(* Registration: new and taken user names, both types and an unknown one, *)
(* equal, different and blank passwords, a malformed e-mail address.       *)

RegistrationBodies ==
    [username : {<<"b", "o", "b">>, <<"a", "l", "i", "c", "e">>, <<"b", "i", "z", "2">>,
                 <<"c", "y">>},
     email : {<<"a", "@", "x", ".", "d", "e">>, <<"a", "@", "x">>},
     password : {"p1", ""},
     repeated_password : {"p1", "p2", ""},
     type : {"customer", "business", "admin"}]
    \cup {[username |-> <<"a", "l", "i", "c", "e">>, password |-> "p1",
           repeated_password |-> "p1"]}

AuthRegistration == \E body \in RegistrationBodies : RegistrationView_post(body)

AuthProfileGet == \E pk \in 4..(4 + MaxUsers) : ProfileDetailView_get(2, pk)

NextAuth == AuthRegistration \/ AuthProfileGet

SpecAuth == Init /\ [][NextAuth]_vars

(* Profiles: first accesses of users 1 and 4 by profile GET (in two steps, *)
(* so that other requests run in between), offer POST, order count and     *)
(* profile PATCH; the owner's PATCH in its two saves; a review by user 4.  *)

NextProfiles ==
    \/ \E c \in {2, 3}, pk \in {1, 4} : ProfileDetailView_get_lookup(c, pk)
    \/ \E r \in inflight : ProfileDetailView_get_create(r)
    \/ \E c \in {1, 4} : OffersListCreateView_post(c, OfferCreateBody)
    \/ ReviewsListCreateView_post(4, [business_user |-> 1, rating |-> 5])
    \/ \E pk \in {1, 4} : ProfileDetailView_patch_user_save(pk, pk, ProfilePatchBody)
    \/ \E r \in inflight, saved \in BOOLEAN : ProfileDetailView_patch_profile_save(r, saved)
    \/ QueryOrderCount
    \/ \E pk \in {1, 4} : ProfileDetailView_patch(3, pk, ProfilePatchBody)

SpecProfiles == Init /\ [][NextProfiles]_vars

(* The statistics of base-info while offers, profiles and reviews of      *)
(* several ratings come and go.                                            *)

NextBaseInfo ==
    \/ BaseInfoView_get
    \/ OffersListCreateView_post(1, OfferCreateBody)
    \/ ProfileDetailView_get(2, 4)
    \/ \E c \in {2, 4}, b \in {1, 3}, r \in {1, 2} :
          ReviewsListCreateView_post(c, [business_user |-> b, rating |-> r])
    \/ \E pk \in DOMAIN reviews : ReviewsUpdateDeleteView_delete(reviews[pk].reviewer, pk)

SpecBaseInfo == Init /\ [][NextBaseInfo]_vars

(* Requests of several workers interleaved: an offer creation row by row, *)
(* two PATCHes of one offer, two review creations of one pair, and         *)
(* base-info read in between.                                              *)

NextInterleaved ==
    \/ OffersListCreateView_post_begin(1, OfferCreateBody)
    \/ \E r \in inflight : OffersListCreateView_post_detail(r)
    \/ BaseInfoView_get
    \/ \E pk \in DOMAIN offers, body \in {[title |-> "T2"], [description |-> "D2"]} :
          OfferDetailUpdateDeleteView_patch_load(1, pk, body)
    \/ \E r \in inflight : OfferDetailUpdateDeleteView_patch_save(r)
    \/ \E rating \in {4, 5} :
          ReviewsListCreateView_post_check(2, [business_user |-> 1, rating |-> rating])
    \/ \E r \in inflight : ReviewsListCreateView_post_save(r)

SpecInterleaved == Init /\ [][NextInterleaved]_vars

(* Roles over time: a business user with an offer rewrites the type of its *)
(* own profile and orders.                                                 *)

NextRoles ==
    \/ OffersListCreateView_post(1, OfferCreateBody)
    \/ \E c \in {1, 2}, type \in {"customer", "business", "admin"} :
          ProfileDetailView_patch(c, c, [type |-> type, tel |-> "123"])
    \/ \E c \in {1, 2}, d \in 1..3 :
          OrdersListCreateView_post(c, [offer_detail_id |-> JsonInt(d)])
    \/ \E pk \in DOMAIN orders, st \in STATUS_CHOICES :
          OrdersUpdateDeleteView_patch(orders[pk].business_user, pk, [status |-> st])

SpecRoles == Init /\ [][NextRoles]_vars

\* Every request of the groups above.
Next ==
    \/ NextOffers \/ NextOrders \/ NextReviews \/ NextOrderQueries \/ NextOfferUpdates
    \/ NextOwners \/ NextAuth \/ NextProfiles \/ NextBaseInfo \/ NextInterleaved
    \/ NextRoles

Spec == Init /\ [][Next]_vars

-----------------------------------------------------------------------------
(* Claims about offers (SpecOffers) *)

\* The type a caller's profile resolves to on POST /api/offers/: the existing
\* row's, else the one guessed from the user name and e-mail, else business.
ResolvedOfferType(ps, c) ==
    IF c \in DOMAIN ps THEN ps[c].type
    ELSE IF _guess_profile_type(c) # None THEN _guess_profile_type(c) ELSE TYPE_BUSINESS

\* C1: every offer creation answered 201 created an offer with exactly 3
\* details whose offer_type values are basic, standard and premium, one each.
C1_CreatedOfferHasOneDetailPerType ==
    (resp.op = "offer_post" /\ resp.status = 201) =>
        LET ds == offer_details(details, resp.pk)
        IN  /\ Cardinality(ds) = 3
            /\ \A t \in OFFER_TYPE_CHOICES :
                 Cardinality({d \in ds : details[d].offer_type = t}) = 1

\* C2: every persisted Offer has exactly 3 OfferDetail rows and every
\* OfferDetail row belongs to a persisted Offer; an offer PATCH adds and
\* removes no detail and moves none to another offer; a successful offer
\* DELETE removes the offer's details with it and no others.
OfferDetailsInv(os, ds) ==
    /\ \A o \in DOMAIN os : Cardinality(offer_details(ds, o)) = 3
    /\ \A d \in DOMAIN ds : ds[d].offer \in DOMAIN os

C2_OfferAlwaysHasThreeDetails ==
    [][ /\ OfferDetailsInv(offers', details')
        /\ resp'.op = "offer_patch" =>
             /\ DOMAIN offers' = DOMAIN offers
             /\ DOMAIN details' = DOMAIN details
             /\ \A d \in DOMAIN details : details'[d].offer = details[d].offer
        /\ (resp'.op = "offer_delete" /\ resp'.status = 204) =>
             /\ DOMAIN offers' = DOMAIN offers \ {resp'.pk}
             /\ DOMAIN details' = DOMAIN details \ offer_details(details, resp'.pk)
      ]_vars

C2_Witness ==
    /\ resp.op = "offer_patch" /\ resp.status = 200
    /\ resp.pk \in DOMAIN offers
    /\ Cardinality(offer_details(details, resp.pk)) = 3
    /\ \E d \in offer_details(details, resp.pk) : details[d].price = 2500

\* C3: an offer creation by a business caller whose details list has not
\* exactly 3 entries is answered 400 and leaves the Offer and OfferDetail
\* rows as they were.
C3_WrongDetailCountRejected ==
    [][ ( /\ resp'.op = "offer_post"
          /\ is_authenticated(resp'.caller)
          /\ ResolvedOfferType(profiles, resp'.caller) = TYPE_BUSINESS
          /\ Len(resp'.body.details) # 3 )
        => /\ resp'.status = 400
           /\ offers' = offers
           /\ details' = details
      ]_vars

C3_Witness ==
    /\ resp.op = "offer_post" /\ resp.status = 400
    /\ resp.caller \in DOMAIN profiles
    /\ profiles[resp.caller].type = TYPE_BUSINESS
    /\ Len(resp.body.details) = 4

\* C4: an offer creation without credentials is answered 401, one by an
\* authenticated caller whose resolved profile is not business-typed is
\* answered 403; neither creates an Offer or OfferDetail row, whatever the
\* payload.
C4_OfferPostNeedsBusiness ==
    [][ resp'.op = "offer_post" =>
          /\ ~is_authenticated(resp'.caller) =>
               /\ resp'.status = 401
               /\ offers' = offers /\ details' = details
          /\ ( /\ is_authenticated(resp'.caller)
               /\ ResolvedOfferType(profiles, resp'.caller) # TYPE_BUSINESS ) =>
               /\ resp'.status = 403
               /\ offers' = offers /\ details' = details
      ]_vars

\* A caller with a customer profile posts a well-formed offer and is refused.
C4_Witness ==
    /\ resp.op = "offer_post" /\ resp.status = 403
    /\ profiles[resp.caller].type = TYPE_CUSTOMER
    /\ OfferCreateSerializer_is_valid(resp.body)
    /\ offers = Empty

-----------------------------------------------------------------------------
(* Claims about reviews (SpecReviews) *)

\* What IsCustomerUser asks for: an authenticated caller whose profile is
\* customer-typed or, without a Profile row, whose name infers customer.
CustomerTyped(ps, c) ==
    /\ is_authenticated(c)
    /\ (IF c \in DOMAIN ps THEN ps[c].type ELSE _infer_profile_type(c)) = TYPE_CUSTOMER

ReviewPairInv(rs) ==
    \A r1, r2 \in DOMAIN rs :
        (rs[r1].business_user = rs[r2].business_user /\ rs[r1].reviewer = rs[r2].reviewer)
            => r1 = r2

PairHasReview(rs, b, c) ==
    \E r \in DOMAIN rs : rs[r].business_user = b /\ rs[r].reviewer = c

\* C5 as stated: there is at most one Review row per (business_user,
\* reviewer) pair, and every create request by a customer for a pair that
\* already has a review is answered 403 and leaves the reviews unchanged.
C5_DuplicateReviewAlways403 ==
    [][ /\ ReviewPairInv(reviews')
        /\ ( /\ resp'.op = "review_post"
             /\ CustomerTyped(profiles, resp'.caller)
             /\ PairHasReview(reviews, resp'.body.business_user, resp'.caller) )
           => (resp'.status = 403 /\ reviews' = reviews)
      ]_vars

\* C5 amended: there is at most one Review row per (business_user, reviewer)
\* pair; a create request by a customer for a pair that already has a review
\* leaves the reviews unchanged, and is answered 403 when its payload is
\* valid (rating in 1..5) and 400 when it is not.
C5_DuplicateReviewRefused ==
    [][ /\ ReviewPairInv(reviews')
        /\ ( /\ resp'.op = "review_post"
             /\ CustomerTyped(profiles, resp'.caller)
             /\ PairHasReview(reviews, resp'.body.business_user, resp'.caller) )
           => /\ reviews' = reviews
              /\ resp'.status = IF resp'.body.rating \in 1..5 THEN 403 ELSE 400
      ]_vars

C5_Witness ==
    /\ resp.op = "review_post" /\ resp.status = 403
    /\ Cardinality({r \in DOMAIN reviews :
                      reviews[r].business_user = resp.body.business_user
                      /\ reviews[r].reviewer = resp.caller}) = 1
    /\ Cardinality(DOMAIN reviews) = 2

RatingInv(rs) == \A r \in DOMAIN rs : rs[r].rating \in 1..5

OutOfRange(body) == "rating" \in DOMAIN body /\ (body.rating < 1 \/ body.rating > 5)

Boundary(body) == "rating" \in DOMAIN body /\ body.rating \in {1, 5}

\* C6: every persisted Review has a rating in 1..5; a review create or update
\* request carrying a rating below 1 or above 5 changes no Review row and,
\* made by a caller who may make it (a customer for a create, the review's
\* reviewer for an update), is answered 400; ratings 1 and 5 are accepted on
\* create and on update.
C6_RatingInRange ==
    [][ /\ RatingInv(reviews')
        /\ (resp'.op \in {"review_post", "review_patch"} /\ OutOfRange(resp'.body)) =>
             /\ reviews' = reviews
             /\ (resp'.op = "review_post" /\ CustomerTyped(profiles, resp'.caller))
                  => resp'.status = 400
             /\ ( /\ resp'.op = "review_patch"
                  /\ is_authenticated(resp'.caller)
                  /\ resp'.pk \in DOMAIN reviews
                  /\ reviews[resp'.pk].reviewer = resp'.caller )
                  => resp'.status = 400
        /\ ( /\ resp'.op = "review_post"
             /\ Boundary(resp'.body)
             /\ CustomerTyped(profiles, resp'.caller)
             /\ resp'.body.business_user \in UserIds
             /\ ~PairHasReview(reviews, resp'.body.business_user, resp'.caller) ) =>
             /\ resp'.status = 201
             /\ resp'.pk \notin DOMAIN reviews
             /\ reviews'[resp'.pk].rating = resp'.body.rating
        /\ ( /\ resp'.op = "review_patch"
             /\ Boundary(resp'.body)
             /\ is_authenticated(resp'.caller)
             /\ resp'.pk \in DOMAIN reviews
             /\ reviews[resp'.pk].reviewer = resp'.caller ) =>
             /\ resp'.status = 200
             /\ reviews'[resp'.pk].rating = resp'.body.rating
      ]_vars

\* The reviewer's update with rating 6 is refused; the review keeps rating 5.
C6_Witness ==
    /\ resp.op = "review_patch" /\ resp.status = 400
    /\ resp.body.rating = 6
    /\ resp.pk \in DOMAIN reviews
    /\ reviews[resp.pk].reviewer = resp.caller
    /\ reviews[resp.pk].rating = 5

-----------------------------------------------------------------------------
(* Claims about orders (SpecOrders) *)

\* C7: DELETE /api/orders/{id}/ by an authenticated caller who is not staff is
\* answered 403 and removes nothing, also for the order's customer_user and
\* business_user; an order row disappears only by a DELETE of that order
\* from a staff caller.
C7_OnlyStaffDeletesOrders ==
    [][ /\ ( /\ resp'.op = "order_delete"
             /\ is_authenticated(resp'.caller)
             /\ ~is_staff(resp'.caller) )
           => (resp'.status = 403 /\ orders' = orders)
        /\ \A o \in DOMAIN orders :
             o \notin DOMAIN orders' =>
                /\ resp'.op = "order_delete" /\ resp'.status = 204
                /\ resp'.pk = o
                /\ is_staff(resp'.caller)
      ]_vars

\* The order's own customer is refused.
C7_Witness ==
    /\ resp.op = "order_delete" /\ resp.status = 403
    /\ resp.pk \in DOMAIN orders
    /\ orders[resp.pk].customer_user = resp.caller

\* C8: a PATCH of an existing order by an authenticated caller who is not its
\* business_user (its customer_user, another business user, a staff user) is
\* answered 403 and changes no order; one by the business_user with a status
\* outside in_progress, completed, cancelled is answered 400 and changes none;
\* an order's status changes only by a PATCH of that order from its
\* business_user.
C8_OnlyBusinessOwnerSetsStatus ==
    [][ /\ ( /\ resp'.op = "order_patch"
             /\ is_authenticated(resp'.caller)
             /\ resp'.pk \in DOMAIN orders ) =>
             /\ resp'.caller # orders[resp'.pk].business_user
                  => (resp'.status = 403 /\ orders' = orders)
             /\ ( /\ resp'.caller = orders[resp'.pk].business_user
                  /\ resp'.body.status \notin STATUS_CHOICES )
                  => (resp'.status = 400 /\ orders' = orders)
        /\ \A o \in DOMAIN orders \cap DOMAIN orders' :
             orders'[o].status # orders[o].status =>
                /\ resp'.op = "order_patch" /\ resp'.status = 200
                /\ resp'.pk = o
                /\ resp'.caller = orders[o].business_user
      ]_vars

\* A staff user who is not the order's business_user is refused.
C8_Witness ==
    /\ resp.op = "order_patch" /\ resp.status = 403
    /\ is_staff(resp.caller)
    /\ resp.pk \in DOMAIN orders
    /\ orders[resp.pk].business_user # resp.caller
    /\ resp.body.status = STATUS_CANCELLED
    /\ orders[resp.pk].status = STATUS_IN_PROGRESS

OrderFixedFields == SnapshotFields \cup {"customer_user", "business_user"}

\* C9: while an order is persisted, its six snapshot fields, its customer_user
\* and its business_user keep their values through every request.
C9_SnapshotNeverChanges ==
    [][ \A o \in DOMAIN orders \cap DOMAIN orders' :
          \A f \in OrderFixedFields : orders'[o][f] = orders[o][f]
      ]_vars

\* An order taken before its source detail was patched, and completed since.
C9_Witness ==
    \E o \in DOMAIN orders :
        /\ orders[o].price = 1000 /\ orders[o].revisions = 1
        /\ orders[o].status = STATUS_COMPLETED
        /\ 2 \in DOMAIN details /\ details[2].price = 2500

\* C10: an Order row is created only by an order creation request of an
\* authenticated customer-typed caller; an authenticated caller that is not
\* customer-typed is answered 403 and creates none; the order created by a
\* request answered 201 carries the referenced detail's six field values as
\* they are at that moment, the user owning the detail's offer as
\* business_user, the caller as customer_user and status in_progress.
C10_OrderCreatedFromDetail ==
    [][ /\ DOMAIN orders' \ DOMAIN orders # {} =>
             /\ resp'.op = "order_post" /\ resp'.status = 201
             /\ CustomerTyped(profiles, resp'.caller)
             /\ DOMAIN orders' \ DOMAIN orders = {resp'.pk}
        /\ ( /\ resp'.op = "order_post"
             /\ is_authenticated(resp'.caller)
             /\ ~CustomerTyped(profiles, resp'.caller) )
           => (resp'.status = 403 /\ orders' = orders)
        /\ (resp'.op = "order_post" /\ resp'.status = 201) =>
             LET d == details[resp'.body.offer_detail_id.int]
                 o == orders'[resp'.pk]
             IN  /\ resp'.pk \notin DOMAIN orders
                 /\ \A f \in SnapshotFields : o[f] = d[f]
                 /\ o.business_user = offers[d.offer].user
                 /\ o.customer_user = resp'.caller
                 /\ o.status = STATUS_IN_PROGRESS
      ]_vars

\* An order taken after the detail was patched carries the patched values.
C10_Witness ==
    /\ resp.op = "order_post" /\ resp.status = 201
    /\ orders[resp.pk].price = 2500
    /\ orders[resp.pk].customer_user = 2
    /\ orders[resp.pk].business_user = 1

-----------------------------------------------------------------------------
(* Claims about refused order creations and the order counters             *)
(* (SpecOrderQueries)                                                      *)

ResolvedType(ps, u) ==
    IF u \in DOMAIN ps THEN ps[u].type ELSE Or(_guess_profile_type(u), TYPE_CUSTOMER)

OrdersOf(os, b, s) == {o \in DOMAIN os : os[o].business_user = b /\ os[o].status = s}

\* C21: GET /api/orders/ by an authenticated caller is answered 200 with
\* exactly the persisted orders whose customer_user or business_user is the
\* caller, and changes no order.
C21_OrderListIsCallersOrders ==
    [][ (resp'.op = "order_list" /\ is_authenticated(resp'.caller)) =>
          /\ resp'.status = 200
          /\ \A o \in DOMAIN orders :
                o \in resp'.results
                    <=> resp'.caller \in {orders[o].customer_user, orders[o].business_user}
          /\ resp'.results \subseteq DOMAIN orders
          /\ orders' = orders
      ]_vars

\* The business user lists the order a customer placed with it, while the
\* order is no other user's.
C21_Witness ==
    /\ resp.op = "order_list" /\ resp.status = 200 /\ resp.caller = 1
    /\ resp.results # {}
    /\ \A o \in resp.results : orders[o].business_user = 1 /\ orders[o].customer_user # 1

\* C24: a GET of order-count or completed-order-count, answered 200 or 404,
\* leaves Users, Profiles, Offers, Orders and Reviews as they were.
C24_OrderCountsReadOnly ==
    [][ resp'.op \in {"order_count", "completed_order_count"} =>
          /\ users' = users /\ profiles' = profiles
          /\ offers' = offers /\ details' = details
          /\ orders' = orders /\ reviews' = reviews
      ]_vars

\* C12: GET /api/order-count/{id}/ and GET /api/completed-order-count/{id}/
\* by an authenticated caller are answered 404 when user {id} does not exist
\* or its profile does not resolve to business; otherwise they are answered
\* with an integer >= 0, the number of Order rows at that moment whose
\* business_user is {id} and whose status is in_progress (respectively
\* completed).
C12_OrderCounts ==
    [][ ( /\ resp'.op \in {"order_count", "completed_order_count"}
          /\ is_authenticated(resp'.caller) ) =>
          LET id == resp'.pk
              s == IF resp'.op = "order_count" THEN STATUS_IN_PROGRESS ELSE STATUS_COMPLETED
          IN  /\ orders' = orders
              /\ IF id \notin DOMAIN users \/ ResolvedType(profiles, id) # TYPE_BUSINESS
                 THEN resp'.status = 404
                 ELSE /\ resp'.status = 200
                      /\ resp'.data \in Nat
                      /\ resp'.data = Cardinality(OrdersOf(orders, id, s))
      ]_vars

\* The completed counter answers 1 while the in-progress count is 0.
C12_Witness ==
    /\ resp.op = "completed_order_count" /\ resp.status = 200
    /\ resp.data = 1
    /\ OrdersOf(orders, resp.pk, STATUS_IN_PROGRESS) = {}

-----------------------------------------------------------------------------
(* Claims about offer updates (SpecOfferUpdates) *)

\* The details of offer o that a detail patch names by its offer_type.
Named(ds, o, patch) ==
    {d \in offer_details(ds, o) :
        "offer_type" \in DOMAIN patch /\ ds[d].offer_type = patch.offer_type}

\* C13: an offer PATCH by the owner in which a detail patch carries no
\* offer_type, or names an offer_type the offer has no detail of, is answered
\* 400, and every PATCH by the owner that is not answered 200 leaves the
\* offer's own fields and all details, those patched earlier in the request
\* included, as they were before the request.
C13_FailedPatchChangesNothing ==
    [][ ( /\ resp'.op = "offer_patch"
          /\ resp'.pk \in DOMAIN offers
          /\ resp'.caller = offers[resp'.pk].user ) =>
          LET pk == resp'.pk
              patches == IF "details" \in DOMAIN resp'.body THEN resp'.body.details ELSE <<>>
              failing == \E i \in 1..Len(patches) :
                            /\ Named(details, pk, patches[i]) = {}
                            /\ \A j \in 1..(i - 1) :
                                 Cardinality(Named(details, pk, patches[j])) = 1
          IN  /\ failing => resp'.status = 400
              /\ resp'.status # 200 => (offers' = offers /\ details' = details)
      ]_vars

\* The request patched the premium detail and then met a patch without
\* offer_type: the premium detail and the title are as before.
C13_Witness ==
    /\ resp.op = "offer_patch" /\ resp.status = 400
    /\ resp.pk \in DOMAIN offers
    /\ resp.body.details[1] = Patch("premium")
    /\ "offer_type" \notin DOMAIN resp.body.details[2]
    /\ offers[resp.pk].title = "T1"
    /\ \E d \in offer_details(details, resp.pk) :
         details[d].offer_type = "premium" /\ details[d].price = 1000

\* C14: an offer PATCH answered 200 comes from the owner and overwrites, for
\* each detail patch, exactly the fields the patch supplies on the one detail
\* of the offer whose offer_type equals the patch's offer_type; every other
\* field of every detail, the ids of all details, and the offer fields absent
\* from the payload are unchanged.
C14_PatchOverwritesSuppliedFields ==
    [][ (resp'.op = "offer_patch" /\ resp'.status = 200) =>
          LET pk == resp'.pk
              body == resp'.body
              patches == IF "details" \in DOMAIN body THEN body.details ELSE <<>>
              Supplying(d, f) ==
                  {i \in 1..Len(patches) :
                      d \in Named(details, pk, patches[i]) /\ f \in DOMAIN patches[i]}
              Last(S) == CHOOSE i \in S : \A j \in S : j <= i
          IN  /\ resp'.caller = offers[pk].user
              /\ DOMAIN details' = DOMAIN details
              /\ DOMAIN offers' = DOMAIN offers
              /\ \A i \in 1..Len(patches) : Cardinality(Named(details, pk, patches[i])) = 1
              /\ \A d \in DOMAIN details : \A f \in DOMAIN details[d] :
                   details'[d][f] = IF Supplying(d, f) # {}
                                    THEN patches[Last(Supplying(d, f))][f]
                                    ELSE details[d][f]
              /\ \A o \in DOMAIN offers : \A f \in DOMAIN offers[o] :
                   offers'[o][f] = IF o = pk /\ f \in DOMAIN body
                                   THEN body[f]
                                   ELSE offers[o][f]
      ]_vars

\* Standard and premium were patched (description too); basic and the title
\* are as created.
C14_Witness ==
    /\ resp.op = "offer_patch" /\ resp.status = 200
    /\ resp.body = [description |-> "D2", details |-> <<Patch("standard"), Patch("premium")>>]
    /\ offers[resp.pk].title = "T1" /\ offers[resp.pk].description = "D2"
    /\ \E b, st \in offer_details(details, resp.pk) :
         /\ details[b].offer_type = "basic" /\ details[b].price = 1000
         /\ details[st].offer_type = "standard" /\ details[st].price = 2500
         /\ details[st].title = "A"

-----------------------------------------------------------------------------
(* Claims about review creation (SpecReviews) *)

\* C16: POST /api/reviews/ adds a Review row only for an authenticated
\* customer-typed caller, answers 201 and stores the caller as reviewer; an
\* unauthenticated caller and an authenticated caller that is not
\* customer-typed are both answered 401 and no Review row is created.
C16_ReviewCreationCustomerOnly ==
    [][ resp'.op = "review_post" =>
          /\ reviews' # reviews =>
                /\ CustomerTyped(profiles, resp'.caller)
                /\ resp'.status = 201
                /\ \E r \in DOMAIN reviews' \ DOMAIN reviews :
                      /\ DOMAIN reviews' = DOMAIN reviews \cup {r}
                      /\ reviews'[r].reviewer = resp'.caller
                      /\ reviews'[r].business_user = resp'.body.business_user
                /\ \A r \in DOMAIN reviews : reviews'[r] = reviews[r]
          /\ ~CustomerTyped(profiles, resp'.caller) =>
                (resp'.status = 401 /\ reviews' = reviews)
      ]_vars

\* The business-typed user 1 is answered 401 while customer 2's review of
\* user 1 is stored with reviewer 2.
C16_Witness ==
    /\ resp.op = "review_post" /\ resp.status = 401 /\ resp.caller = 1
    /\ \E r \in DOMAIN reviews : reviews[r].reviewer = 2 /\ reviews[r].business_user = 1

-----------------------------------------------------------------------------
(* Claims about registration (SpecAuth) *)

PasswordsEqual(body) ==
    /\ {"password", "repeated_password"} \subseteq DOMAIN body
    /\ body.password = body.repeated_password

WellFormedEmail(body) ==
    /\ "email" \in DOMAIN body
    /\ Len(SelectSeq(body.email, LAMBDA ch : ch = "@")) = 1
    /\ Len(SelectSeq(body.email, LAMBDA ch : ch = ".")) >= 1
    /\ body.email[Len(body.email)] \notin {"@", "."}

TypeValid(body) == "type" \in DOMAIN body /\ body.type \in {"customer", "business"}

-----------------------------------------------------------------------------
(* Claims about profiles (SpecProfiles) *)

C19_PatchAppliedAsOneUnit ==
    resp.op = "profile_patch" =>
        \A u \in DOMAIN users :
            (users[u].first_name = ProfilePatchBody.first_name)
                <=> (u \in DOMAIN profiles /\ profiles[u].location = ProfilePatchBody.location)

\* A valid offer creation by c would be accepted: the profile the request
\* resolves is business-typed.
OfferCreationAccepted(ps, c) ==
    /\ is_authenticated(c)
    /\ (IF c \in DOMAIN ps THEN ps[c].type
        ELSE IF _guess_profile_type(c) # None THEN _guess_profile_type(c)
        ELSE TYPE_BUSINESS) = TYPE_BUSINESS

\* C20: no user is at once accepted as business (a valid offer creation
\* would be answered 201) and as customer (a valid order or review creation
\* would be answered 201), users without a Profile row and without an
\* inference keyword included.
C20_RolesExclusive ==
    \A c \in DOMAIN users : ~(OfferCreationAccepted(profiles, c) /\ CustomerTyped(profiles, c))

-----------------------------------------------------------------------------
(* Claims about base-info (SpecBaseInfo) *)

RECURSIVE RatingSum(_, _)
RatingSum(rs, S) ==
    IF S = {} THEN 0
    ELSE LET r == CHOOSE x \in S : TRUE IN rs[r].rating + RatingSum(rs, S \ {r})

-----------------------------------------------------------------------------
(* Claims about interleaved requests (SpecInterleaved) *)

\* C25: while an offer creation is in progress its Offer row is not visible
\* to other requests, and every Offer row that is visible has its 3 details:
\* the offer appears together with all of them.
C25_OfferAppearsWithItsDetails ==
    /\ \A r \in inflight : r.op = "offer_post" => r.pk \notin DOMAIN offers
    /\ \A o \in DOMAIN offers : Cardinality({d \in DOMAIN details : details[d].offer = o}) = 3
    /\ \A d \in DOMAIN details : details[d].offer \in DOMAIN offers
    /\ resp.op = "base_info" => resp.offer_count <= Cardinality(DOMAIN offers)

\* base-info has been read while the creation had written the Offer row and
\* two details: it counted no offer, and none is visible.
C25_Witness ==
    /\ resp.op = "base_info" /\ resp.offer_count = 0
    /\ \E r \in inflight : r.op = "offer_post" /\ r.written = 2
    /\ offers = Empty /\ details = Empty

\* C26: a review creation that is answered when the pair already has a
\* review is answered 403 (the store's uniqueness error is not propagated)
\* and leaves the pair's single review.
C26_InterleavedDuplicateAnswered403 ==
    [][ ( /\ resp' # resp /\ resp'.op = "review_post"
          /\ \E x \in DOMAIN reviews :
                /\ reviews[x].business_user = resp'.body.business_user
                /\ reviews[x].reviewer = resp'.caller )
        => (resp'.status = 403 /\ reviews' = reviews)
      ]_vars

\* C30: an accepted offer PATCH leaves every field that its payload does not
\* carry as the row held it when the PATCH was saved, also when another
\* PATCH was saved after this one had loaded the row.
C30_AbsentFieldsKeepPersistedValue ==
    [][ ( /\ resp' # resp /\ resp'.op = "offer_patch" /\ resp'.status = 200
          /\ resp'.pk \in DOMAIN offers ) =>
          \A f \in {"title", "description"} \ DOMAIN resp'.body :
              offers'[resp'.pk][f] = offers[resp'.pk][f]
      ]_vars

-----------------------------------------------------------------------------
(* Claims about roles (SpecRoles) *)

\* C27: no request changes the type of a profile that exists.
C27_ProfileTypeFixed ==
    [][ \A u \in DOMAIN profiles :
          u \in DOMAIN profiles' /\ profiles'[u].type = profiles[u].type ]_vars

\* C28: a status PATCH by the order's business_user that carries one of the
\* three status values is answered 200 and sets that value, whatever the
\* order's status was before (completed, cancelled or the same value).
C28_StatusHasNoTerminalValue ==
    [][ \A pk \in DOMAIN orders :
          ( /\ resp'.op = "order_patch"
            /\ resp'.pk = pk
            /\ resp'.caller = orders[pk].business_user
            /\ "status" \in DOMAIN resp'.body
            /\ resp'.body.status \in {"in_progress", "completed", "cancelled"} )
          => /\ resp'.status = 200
             /\ pk \in DOMAIN orders'
             /\ orders'[pk].status = resp'.body.status ]_vars

\* An order is in progress right after a PATCH to in_progress was accepted:
\* it was reset from completed or cancelled, or patched to its own status.
C28_Witness ==
    /\ resp.op = "order_patch"
    /\ resp.status = 200
    /\ resp.body = [status |-> "in_progress"]
    /\ resp.pk \in DOMAIN orders
    /\ orders[resp.pk].status = "in_progress"

\* C29: no Order has customer_user equal to business_user.
C29_NoOrderOnOwnOffer ==
    \A o \in DOMAIN orders : orders[o].customer_user # orders[o].business_user

-----------------------------------------------------------------------------
(* Claims about owned resources (SpecOwners) *)

\* C15: a PATCH or DELETE of an existing offer or review, or a PATCH of an
\* existing user's profile, by an authenticated caller who is not the
\* resource's owning user (offer.user, review.reviewer, profile.user) is
\* answered 403 and leaves the resource as it was and persisted; an offer
\* with its details, a review, and a profile with its user row change or
\* disappear only in a request of their owner.
C15_OnlyOwnerWrites ==
    [][ /\ ( /\ resp'.op \in {"offer_patch", "offer_delete"}
             /\ is_authenticated(resp'.caller)
             /\ resp'.pk \in DOMAIN offers
             /\ resp'.caller # offers[resp'.pk].user )
           => (resp'.status = 403 /\ offers' = offers /\ details' = details)
        /\ ( /\ resp'.op \in {"review_patch", "review_delete"}
             /\ is_authenticated(resp'.caller)
             /\ resp'.pk \in DOMAIN reviews
             /\ resp'.caller # reviews[resp'.pk].reviewer )
           => (resp'.status = 403 /\ reviews' = reviews)
        /\ ( /\ resp'.op = "profile_patch"
             /\ is_authenticated(resp'.caller)
             /\ resp'.pk \in DOMAIN users
             /\ resp'.caller # resp'.pk )
           => /\ resp'.status = 403
              /\ users' = users
              /\ \A u \in DOMAIN profiles : u \in DOMAIN profiles' /\ profiles'[u] = profiles[u]
        /\ \A o \in DOMAIN offers :
             (o \notin DOMAIN offers' \/ offers'[o] # offers[o]) =>
                (resp'.caller = offers[o].user /\ resp'.op \in {"offer_patch", "offer_delete"})
        /\ \A d \in DOMAIN details :
             (d \notin DOMAIN details' \/ details'[d] # details[d]) =>
                ( /\ resp'.caller = offers[details[d].offer].user
                  /\ resp'.op \in {"offer_patch", "offer_delete"} )
        /\ \A r \in DOMAIN reviews :
             (r \notin DOMAIN reviews' \/ reviews'[r] # reviews[r]) =>
                (resp'.caller = reviews[r].reviewer /\ resp'.op \in {"review_patch", "review_delete"})
        /\ \A u \in DOMAIN profiles :
             (u \notin DOMAIN profiles' \/ profiles'[u] # profiles[u]) =>
                (resp'.caller = u /\ resp'.op = "profile_patch")
        /\ \A u \in DOMAIN users :
             (u \notin DOMAIN users' \/ users'[u] # users[u]) =>
                (resp'.caller = u /\ resp'.op = "profile_patch")
      ]_vars

\* C23: a request answered 401 or 403 (offer POST, profile PATCH, offer
\* PATCH/DELETE, order POST/PATCH/DELETE, review POST/PATCH/DELETE) leaves
\* every table as it was, Profile included.
C23_RefusalChangesNothing ==
    [][ ( /\ resp'.op \in {"offer_post", "profile_patch", "offer_patch", "offer_delete",
                           "order_post", "order_patch", "order_delete",
                           "review_post", "review_patch", "review_delete"}
          /\ resp'.status \in {401, 403} )
        => /\ users' = users /\ profiles' = profiles
           /\ offers' = offers /\ details' = details
           /\ orders' = orders /\ reviews' = reviews
      ]_vars

\* A staff user's PATCH of user 1's profile is refused; the profile keeps the
\* location its owner gave it.
C15_Witness ==
    /\ resp.op = "profile_patch" /\ resp.status = 403
    /\ resp.caller = 3 /\ resp.pk = 1
    /\ 1 \in DOMAIN profiles /\ profiles[1].location = "Berlin"
    /\ users[1].first_name = "Anna"
    /\ offers # Empty /\ reviews # Empty

====
